---- MODULE Spec2Model ----
(***************************************************************************)
(* Model of the file-intake logic of file-upload-lib:                      *)
(*   - the useFileUpload hook        (src/src/hooks/use-file-upload.ts)    *)
(*   - the FileUploader component    (src/unnamed/part_002)                *)
(* JavaScript strings are modelled as sequences of one-character strings,  *)
(* so that startsWith / endsWith / replace / split / trim / toLowerCase    *)
(* are computed the way the code computes them.                            *)
(***************************************************************************)
EXTENDS Integers, Sequences, FiniteSets, TLC

VARIABLES
  sut,          \* which program this behaviour exercises: "matcher" | "hook" | "component"
  \* ---- type-matching harness (validateFile / accepted-type check applied to one input)
  mAccept,      \* the accept string under test
  mFile,        \* the candidate file under test (index into Files)
  mHook,        \* result of the hook's validateFile: "none" | "accept" | "reject"
  mComp,        \* result of the component's type check: "none" | "accept" | "reject"
  \* ---- useFileUpload hook
  hOpts,        \* the options of the hook (fixed per behaviour)
  hFiles,       \* useState files: sequence of FileWithPreview
  isUploading,  \* useState isUploading
  uploadProgress, \* useState uploadProgress
  hBatches,     \* handleFiles calls in flight: previews pending (with the order in which
                \* they completed so far), upload pending, grace delay; a call waiting
                \* for its previews also notes what was removed meanwhile (observation
                \* only: cleared, gone)
  hNextId,      \* next fresh record id (Math.random ids are modelled as fresh)
  hLast,        \* what the last hook operation saw and reported (observation only)
  uploadCalls,  \* the onUpload option as a test double: how often it was called, how
                \* many of its promises resolved / rejected, and how many rejections
                \* left handleFiles uncaught
  \* ---- FileUploader component
  cCfg,         \* the config prop (mergedConfig is computed from it)
  cFiles,       \* useState files: sequence of FileItem
  cErrors,      \* useState errors
  filepath,     \* useState filepath: 0 = "" (no preview), else an object URL
  fileName,     \* useState fileName: 0 = "", else index of the file shown
  dropFiles,    \* the files value captured by the memoized handleDrop closure
  dropCfg,      \* the mergedConfig captured by the memoized handleDrop closure
  urlRevoked,   \* per object URL: how many times URL.revokeObjectURL was called on it
  nextUrl,      \* next fresh object URL / item id
  cLast         \* what the last component handler call saw and produced (observation only)

mvars == <<mAccept, mFile, mHook, mComp>>
hvars == <<hOpts, hFiles, isUploading, uploadProgress, hBatches, hNextId, hLast,
           uploadCalls>>
cvars == <<cCfg, cFiles, cErrors, filepath, fileName, dropFiles, dropCfg, urlRevoked,
          nextUrl, cLast>>
vars == <<sut, mvars, hvars, cvars>>

(***************************************************************************)
(* JavaScript string primitives                                            *)
(***************************************************************************)
UpperChars == <<"A","B","C","D","E","F","G","H","I","J","K","L","M",
                "N","O","P","Q","R","S","T","U","V","W","X","Y","Z">>
LowerChars == <<"a","b","c","d","e","f","g","h","i","j","k","l","m",
                "n","o","p","q","r","s","t","u","v","w","x","y","z">>

\* String.prototype.toLowerCase, one character
lowerChar(c) ==
  IF \E i \in 1..Len(UpperChars) : UpperChars[i] = c
  THEN LowerChars[CHOOSE i \in 1..Len(UpperChars) : UpperChars[i] = c]
  ELSE c

\* String.prototype.toLowerCase
toLowerCase(s) == [i \in 1..Len(s) |-> lowerChar(s[i])]

\* String.prototype.startsWith
startsWith(s, pre) ==
  /\ Len(pre) <= Len(s)
  /\ SubSeq(s, 1, Len(pre)) = pre

\* String.prototype.endsWith
endsWith(s, suf) ==
  /\ Len(suf) <= Len(s)
  /\ SubSeq(s, Len(s) - Len(suf) + 1, Len(s)) = suf

\* String.prototype.indexOf, 1-based; 0 when pat does not occur
indexOf(s, pat) ==
  LET hits == {i \in 1..(Len(s) - Len(pat) + 1) : SubSeq(s, i, i + Len(pat) - 1) = pat}
  IN IF hits = {} THEN 0 ELSE CHOOSE i \in hits : \A j \in hits : i <= j

\* String.prototype.replace with a string pattern: the FIRST occurrence only
replace(s, pat, rep) ==
  LET i == indexOf(s, pat)
  IN IF i = 0 THEN s
     ELSE SubSeq(s, 1, i - 1) \o rep \o SubSeq(s, i + Len(pat), Len(s))

\* String.prototype.trim (blanks only are used as white space here)
RECURSIVE trim(_)
trim(s) ==
  IF s = <<>> THEN s
  ELSE IF Head(s) = " " THEN trim(Tail(s))
  ELSE IF s[Len(s)] = " " THEN trim(SubSeq(s, 1, Len(s) - 1))
  ELSE s

\* String.prototype.split(",")
RECURSIVE split(_)
split(s) ==
  LET i == indexOf(s, <<",">>)
  IN IF i = 0 THEN <<s>>
     ELSE <<SubSeq(s, 1, i - 1)>> \o split(SubSeq(s, i + 1, Len(s)))

\* accept.split(",").map((type) => type.trim())
splitTrim(s) == LET parts == split(s) IN [i \in 1..Len(parts) |-> trim(parts[i])]

(***************************************************************************)
(* String literals of the program and of the inputs                        *)
(***************************************************************************)
SlashStar   == <<"/","*">>
Dot         == <<".">>
AnyType     == <<"*","/","*">>                           \* "*/*"
ImageAny    == <<"i","m","a","g","e","/","*">>           \* "image/*"
ImagePrefix == <<"i","m","a","g","e","/">>               \* "image/"
DotPdf      == <<".","p","d","f">>                       \* ".pdf"
DotPdfUpper == <<".","P","D","F">>                       \* ".PDF"
ImageAnyPdf == <<"i","m","a","g","e","/","*",",",".","p","d","f">> \* "image/*,.pdf"
ImageAnyAll == <<"i","m","a","g","e","/","*",","," ","*","/","*">> \* "image/*, */*"
AppPdf      == <<"a","p","p","l","i","c","a","t","i","o","n","/","p","d","f">>
ImagePng    == <<"i","m","a","g","e","/","p","n","g">>
ImagexPng   == <<"i","m","a","g","e","x","/","p","n","g">>
TextPlain   == <<"t","e","x","t","/","p","l","a","i","n">>

MBYTES == 1024 * 1024

\* The candidate files the environment can offer (File objects: name, size, type).
Files == <<
  [name |-> <<"a",".","p","n","g">>, size |-> 1,             type |-> ImagePng],
  [name |-> <<"b",".","p","d","f">>, size |-> MBYTES,        type |-> AppPdf],
  [name |-> <<"c",".","p","n","g">>, size |-> MBYTES + 1,    type |-> ImagePng],
  [name |-> <<"d",".","p","n","g">>, size |-> 10*MBYTES + 1, type |-> ImagePng],
  [name |-> <<"e",".","p","n","g">>, size |-> 2,             type |-> ImagexPng],
  [name |-> <<"m","y","p","d","f">>, size |-> 2,             type |-> <<>>],
  [name |-> <<"G",".","P","D","F">>, size |-> 2,             type |-> AppPdf],
  [name |-> <<"h",".","t","x","t">>, size |-> 2,             type |-> TextPlain]
>>

AllFiles == 1..Len(Files)

(***************************************************************************)
(* Type matching                                                           *)
(***************************************************************************)

\* use-file-upload.ts 81-86: the callback of acceptedTypes.some
hookTypeMatches(type, file) ==
  IF endsWith(type, SlashStar)
  THEN startsWith(file.type, replace(type, SlashStar, <<>>))
  ELSE file.type = type

\* use-file-upload.ts 79-90: TRUE when the type check lets the file through
hookIsValidTypeOf(accept, file) ==
  IF accept # AnyType
  THEN LET acceptedTypes == splitTrim(accept)
       IN \E i \in 1..Len(acceptedTypes) : hookTypeMatches(acceptedTypes[i], file)
  ELSE TRUE

\* part_002 348-356: the callback of acceptedTypes.some
compTypeMatches(type, file) ==
  IF endsWith(type, SlashStar)
  THEN startsWith(file.type, replace(type, SlashStar, <<>>))
  ELSE \/ file.type = type
       \/ endsWith(toLowerCase(file.name), replace(type, Dot, <<>>))

\* part_002 341-362: TRUE when the type check lets the file through
\* (an empty acceptedFileTypes is falsy: no check)
compIsAcceptedOf(accept, file) ==
  IF accept # <<>> /\ accept # AnyType
  THEN LET acceptedTypes == splitTrim(accept)
       IN \E i \in 1..Len(acceptedTypes) : compTypeMatches(acceptedTypes[i], file)
  ELSE TRUE

\* The accept strings the configurations of the model use
AcceptStrings == {AnyType, ImageAny, DotPdf, DotPdfUpper, ImageAnyPdf, ImageAnyAll, AppPdf}

\* The two type checks, tabulated once per accept string and candidate file
\* (f is the index of the file in Files)
hookTypeTable == [a \in AcceptStrings |-> [f \in AllFiles |-> hookIsValidTypeOf(a, Files[f])]]
compTypeTable == [a \in AcceptStrings |-> [f \in AllFiles |-> compIsAcceptedOf(a, Files[f])]]

hookIsValidType(accept, f) == hookTypeTable[accept][f]
compIsAccepted(accept, f) == compTypeTable[accept][f]

(***************************************************************************)
(* Bounds of the model                                                     *)
(***************************************************************************)
\* longest batch handed to a handler in one call
MaxBatchLen == 2
\* number of records the hook creates in one behaviour
MaxIds == 2
\* number of object URLs the component creates in one behaviour
MaxUrls == 3

RECURSIVE SeqsUpTo(_, _)
SeqsUpTo(S, n) ==
  IF n = 0 THEN {<<>>}
  ELSE LET shorter == SeqsUpTo(S, n - 1)
       IN shorter \cup {Append(q, x) : q \in {r \in shorter : Len(r) = n - 1}, x \in S}

\* Array.prototype.slice(0, end)
slice0(s, end) ==
  LET e == IF end < 0
           THEN (IF Len(s) + end < 0 THEN 0 ELSE Len(s) + end)
           ELSE (IF end > Len(s) THEN Len(s) ELSE end)
  IN SubSeq(s, 1, e)

removeAt(s, i) == SubSeq(s, 1, i - 1) \o SubSeq(s, i + 1, Len(s))

(***************************************************************************)
(* useFileUpload hook                                                      *)
(***************************************************************************)
HookDefaultMaxFiles == 10
HookDefaultMaxSizeMB == 10

\* An error message is modelled by its kind and the file it names (0: none)
NoError == [kind |-> "none", file |-> 0]

\* validateFile with the size comparison made inclusive (>= for >)
validateFileInclusive(opts, f) ==
  IF opts.maxSize # 0 /\ Files[f].size >= opts.maxSize
  THEN [kind |-> "tooLarge", file |-> f]
  ELSE IF opts.minSize # 0 /\ Files[f].size < opts.minSize
  THEN [kind |-> "tooSmall", file |-> f]
  ELSE IF ~hookIsValidType(opts.accept, f)
  THEN [kind |-> "unsupportedType", file |-> f]
  ELSE NoError

\* use-file-upload.ts 65-95, for the file Files[f].
\* `maxSize && ...` and `minSize && ...`: 0 is falsy.
validateFile(opts, f) ==
  IF opts.maxSize # 0 /\ Files[f].size > opts.maxSize
  THEN [kind |-> "tooLarge", file |-> f]
  ELSE IF opts.minSize # 0 /\ Files[f].size < opts.minSize
  THEN [kind |-> "tooSmall", file |-> f]
  ELSE IF ~hookIsValidType(opts.accept, f)
  THEN [kind |-> "unsupportedType", file |-> f]
  ELSE NoError

\* the forEach over the batch giving up at the first rejected candidate
RECURSIVE validateAllAbortOnError(_, _)
validateAllAbortOnError(opts, input) ==
  IF input = <<>> THEN [valid |-> <<>>, errors |-> <<>>]
  ELSE LET error == validateFile(opts, Head(input))
           rest == validateAllAbortOnError(opts, Tail(input))
       IN IF error # NoError
          THEN [valid |-> <<>>, errors |-> <<error>>]
          ELSE [valid |-> <<Head(input)>> \o rest.valid, errors |-> rest.errors]

\* use-file-upload.ts 130-141: the forEach over the batch
\* valid: the files pushed to validFiles; errors: the messages pushed / given to onError
RECURSIVE validateAll(_, _)
validateAll(opts, input) ==
  IF input = <<>> THEN [valid |-> <<>>, errors |-> <<>>]
  ELSE LET error == validateFile(opts, Head(input))
           rest == validateAll(opts, Tail(input))
       IN IF error # NoError
          THEN [valid |-> rest.valid, errors |-> <<error>> \o rest.errors]
          ELSE [valid |-> <<Head(input)>> \o rest.valid, errors |-> rest.errors]

\* use-file-upload.ts 103: file.type.startsWith("image/")
isImage(file) == startsWith(file.type, ImagePrefix)

\* use-file-upload.ts 98-124: the record a preview promise resolves with
createFilePreview(f, id) ==
  [id |-> id, file |-> f,
   preview |-> IF isImage(Files[f]) THEN "dataURL" ELSE "placeholder"]

\* finalFilesOf without the slice(0, maxFiles)
finalFilesUncapped(opts, files, filesWithPreviews) ==
  IF opts.multiple THEN files \o filesWithPreviews ELSE filesWithPreviews

\* finalFilesOf appending whatever `multiple` says
finalFilesAlwaysAppend(opts, files, filesWithPreviews) ==
  slice0(files \o filesWithPreviews, opts.maxFiles)

\* use-file-upload.ts 149-152
finalFilesOf(opts, files, filesWithPreviews) ==
  LET newFiles == IF opts.multiple THEN files \o filesWithPreviews ELSE filesWithPreviews
  IN slice0(newFiles, opts.maxFiles)

\* The option sets explored: every combination of multiple and maxFiles
\* without an upload action, one configuration with a maximum size, one
\* restricted to images, one with a minimum size, and the upload action with a
\* multi-file configuration that accepts pdf files (their previews resolve at
\* once).
HookOptions ==
  [accept : {AnyType},
   multiple : BOOLEAN,
   maxFiles : {0, 1, 2},
   maxSize : {0},
   minSize : {0},
   onUpload : {FALSE}]
  \cup
  [accept : {AnyType, ImageAny},
   multiple : {TRUE},
   maxFiles : {2},
   maxSize : {1},
   minSize : {0},
   onUpload : {FALSE}]
  \cup
  [accept : {AppPdf},
   multiple : {TRUE},
   maxFiles : {2},
   maxSize : {0},
   minSize : {2},
   onUpload : {FALSE}]
  \cup
  [accept : {AppPdf},
   multiple : {TRUE},
   maxFiles : {2},
   maxSize : {0},
   minSize : {0},
   onUpload : {TRUE}]

HookFiles == {1, 2}
HookBatches == SeqsUpTo(HookFiles, MaxBatchLen)

HookIdle == [op |-> "init", input |-> <<>>, errors |-> <<>>, recs |-> <<>>,
             done |-> <<>>, snap |-> <<>>, final |-> <<>>, arg |-> <<>>,
             cleared |-> FALSE, gone |-> {}]

idsOf(files) == {files[i].id : i \in 1..Len(files)}

\* Observation: the calls still waiting for their previews note whether
\* clearFiles ran, and which of the records they captured (snap) removeFile or
\* clearFiles took out.
noteRemoved(batches, ids, byClear) ==
  [i \in 1..Len(batches) |->
     IF batches[i].stage = "preview"
     THEN [batches[i] EXCEPT !.gone = @ \cup (ids \cap idsOf(batches[i].snap)),
                             !.cleared = @ \/ byClear]
     ELSE batches[i]]

\* the argument of the callbacks listing the files in reverse order
fileOfEachReversed(finalFiles) ==
  [i \in 1..Len(finalFiles) |-> finalFiles[Len(finalFiles) + 1 - i].file]

\* use-file-upload.ts 155, 174: finalFiles.map((f) => f.file), the argument of
\* onFilesSelected and of onUpload
fileOfEach(finalFiles) ==
  [i \in 1..Len(finalFiles) |-> finalFiles[i].file]

\* Promise.all delivering its results in the order the promises settled
promiseAllInCompletionOrder(promises, done) ==
  [k \in 1..Len(done) |-> promises[done[k]]]

\* use-file-upload.ts 145-147: await Promise.all(validFiles.map(createFilePreview)).
\* promises: the records the previews resolve with, in the order of validFiles;
\* done: the order in which they settled. The result follows the input order.
promiseAll(promises, done) ==
  [k \in 1..Len(promises) |-> promises[k]]

\* the continuation of handleFiles fenced by clearFiles: a call that was waiting
\* for its previews when clearFiles ran writes the collection back unchanged
CommitFenced(b, others) ==
  LET filesWithPreviews == promiseAll(b.recs, b.done)
      finalFiles == IF b.cleared THEN hFiles
                    ELSE finalFilesOf(hOpts, b.snap, filesWithPreviews)
  IN /\ hFiles' = finalFiles
     /\ hLast' = [op |-> "commit", input |-> b.input, errors |-> b.errors,
                  recs |-> b.recs, done |-> b.done, snap |-> b.snap,
                  final |-> finalFiles, arg |-> fileOfEach(finalFiles),
                  cleared |-> b.cleared, gone |-> b.gone]
     /\ IF hOpts.onUpload
        THEN /\ isUploading' = TRUE
             /\ uploadProgress' = 0
             /\ uploadCalls' = [uploadCalls EXCEPT !.calls = @ + 1]
             /\ hBatches' = Append(others, [stage |-> "upload", interval |-> TRUE,
                                            pending |-> {}, done |-> <<>>,
                                            input |-> <<>>, errors |-> <<>>,
                                            snap |-> <<>>, recs |-> <<>>,
                                            cleared |-> FALSE, gone |-> {}])
        ELSE /\ hBatches' = others
             /\ UNCHANGED <<isUploading, uploadProgress, uploadCalls>>

\* use-file-upload.ts 149-188, the continuation of handleFiles after the previews:
\* setFiles, onFilesSelected and, with onUpload, the start of the upload.
\* b is the call that continues, others the calls that stay in flight.
Commit(b, others) ==
  LET filesWithPreviews == promiseAll(b.recs, b.done)
      finalFiles == finalFilesOf(hOpts, b.snap, filesWithPreviews)
  IN /\ hFiles' = finalFiles
     /\ hLast' = [op |-> "commit", input |-> b.input, errors |-> b.errors,
                  recs |-> b.recs, done |-> b.done, snap |-> b.snap,
                  final |-> finalFiles, arg |-> fileOfEach(finalFiles),
                  cleared |-> b.cleared, gone |-> b.gone]
     /\ IF hOpts.onUpload
        THEN /\ isUploading' = TRUE
             /\ uploadProgress' = 0
             /\ uploadCalls' = [uploadCalls EXCEPT !.calls = @ + 1]
             /\ hBatches' = Append(others, [stage |-> "upload", interval |-> TRUE,
                                            pending |-> {}, done |-> <<>>,
                                            input |-> <<>>, errors |-> <<>>,
                                            snap |-> <<>>, recs |-> <<>>,
                                            cleared |-> FALSE, gone |-> {}])
        ELSE /\ hBatches' = others
             /\ UNCHANGED <<isUploading, uploadProgress, uploadCalls>>

\* use-file-upload.ts 127-147: handleFiles up to its await. The previews of
\* non-image files resolve at once, so a batch without images continues in the
\* same task; a batch with images waits for its FileReaders.
HandleFiles(input) ==
  LET res == validateAll(hOpts, input)
      n == Len(res.valid)
      recs == [i \in 1..n |-> createFilePreview(res.valid[i], hNextId + i - 1)]
      pending == {i \in 1..n : isImage(Files[res.valid[i]])}
      resolvedAtOnce(i) == i \notin pending
      done == SelectSeq([i \in 1..n |-> i], resolvedAtOnce)
      b == [stage |-> "preview", interval |-> FALSE, pending |-> pending, done |-> done,
            input |-> input, errors |-> res.errors, snap |-> hFiles, recs |-> recs,
            cleared |-> FALSE, gone |-> {}]
  IN /\ sut = "hook"
     /\ UNCHANGED <<sut, mvars, cvars>>
     /\ hNextId + n - 1 <= MaxIds
     /\ hNextId' = hNextId + n
     /\ UNCHANGED hOpts
     /\ IF n = 0
        THEN /\ hLast' = [op |-> "handleFiles", input |-> input, errors |-> res.errors,
                          recs |-> <<>>, done |-> <<>>, snap |-> hFiles, final |-> <<>>,
                          arg |-> <<>>, cleared |-> FALSE, gone |-> {}]
             /\ UNCHANGED <<hFiles, isUploading, uploadProgress, hBatches, uploadCalls>>
        ELSE IF pending = {}
        THEN Commit(b, hBatches)
        ELSE /\ hBatches' = Append(hBatches, b)
             /\ hLast' = [op |-> "handleFiles", input |-> input, errors |-> res.errors,
                          recs |-> recs, done |-> done, snap |-> hFiles, final |-> <<>>,
                          arg |-> <<>>, cleared |-> FALSE, gone |-> {}]
             /\ UNCHANGED <<hFiles, isUploading, uploadProgress, uploadCalls>>

\* use-file-upload.ts 105-112: reader.onload of the i-th call's p-th preview; the
\* last one to load lets Promise.all resolve and handleFiles continue.
ReaderLoad(i, p) ==
  /\ sut = "hook"
  /\ UNCHANGED <<sut, mvars, cvars>>
  /\ i \in 1..Len(hBatches)
  /\ hBatches[i].stage = "preview"
  /\ p \in hBatches[i].pending
  /\ UNCHANGED <<hOpts, hNextId>>
  /\ IF hBatches[i].pending = {p}
     THEN Commit([hBatches[i] EXCEPT !.done = Append(@, p)], removeAt(hBatches, i))
     ELSE /\ hBatches' = [hBatches EXCEPT ![i].pending = @ \ {p}, ![i].done = Append(@, p)]
          /\ UNCHANGED <<hFiles, isUploading, uploadProgress, hLast, uploadCalls>>

\* A handleFiles call one of whose FileReaders failed: Promise.all never
\* resolves, so nothing the call holds is ever used again.
StalledCall == [stage |-> "stalled", interval |-> FALSE, pending |-> {}, done |-> <<>>,
                input |-> <<>>, errors |-> <<>>, snap |-> <<>>, recs |-> <<>>,
                cleared |-> FALSE, gone |-> {}]

\* use-file-upload.ts 104-112: the read started by reader.readAsDataURL fails.
\* The reader has an onload handler only, no onerror (and no onabort): resolve
\* is never called for this preview, so the Promise.all awaited at 145-147
\* stays pending and the i-th call never reaches setFiles. Loads of the call's
\* other readers resolve promises nobody observes.
ReaderFail(i, p) ==
  /\ sut = "hook"
  /\ UNCHANGED <<sut, mvars, cvars>>
  /\ i \in 1..Len(hBatches)
  /\ hBatches[i].stage = "preview"
  /\ p \in hBatches[i].pending
  /\ hBatches' = <<StalledCall>> \o removeAt(hBatches, i)
  /\ UNCHANGED <<hOpts, hNextId, hFiles, isUploading, uploadProgress, hLast, uploadCalls>>

\* the progress updater without its cap
nextProgressUncapped(prev) == prev + 10

\* use-file-upload.ts 165-171: the updater given to setUploadProgress
nextProgress(prev) == IF prev >= 90 THEN 90 ELSE prev + 10

\* use-file-upload.ts 164-172: one firing of the progress interval of call i
IntervalTick(i) ==
  /\ sut = "hook"
  /\ UNCHANGED <<sut, mvars, cvars>>
  /\ i \in 1..Len(hBatches)
  /\ hBatches[i].interval
  /\ uploadProgress' = nextProgress(uploadProgress)
  /\ hBatches' = IF uploadProgress >= 90
                 THEN (IF hBatches[i].stage = "failed"
                       THEN removeAt(hBatches, i)
                       ELSE [hBatches EXCEPT ![i].interval = FALSE])
                 ELSE hBatches
  /\ UNCHANGED <<hOpts, hFiles, isUploading, hNextId, hLast, uploadCalls>>

\* use-file-upload.ts 174-182: onUpload resolved
UploadResolve(i) ==
  /\ sut = "hook"
  /\ UNCHANGED <<sut, mvars, cvars>>
  /\ i \in 1..Len(hBatches)
  /\ hBatches[i].stage = "upload"
  /\ uploadProgress' = 100
  /\ hBatches' = [hBatches EXCEPT ![i].stage = "grace", ![i].interval = FALSE]
  /\ uploadCalls' = [uploadCalls EXCEPT !.resolved = @ + 1]
  /\ UNCHANGED <<hOpts, hFiles, isUploading, hNextId, hLast>>

\* use-file-upload.ts 179-182: the 500 ms timeout after a successful upload
GraceTimeout(i) ==
  /\ sut = "hook"
  /\ UNCHANGED <<sut, mvars, cvars>>
  /\ i \in 1..Len(hBatches)
  /\ hBatches[i].stage = "grace"
  /\ isUploading' = FALSE
  /\ uploadProgress' = 0
  /\ hBatches' = removeAt(hBatches, i)
  /\ UNCHANGED <<hOpts, hFiles, hNextId, hLast, uploadCalls>>

\* the catch block leaving the progress value as it is
uploadCatchKeepsProgress(prev) == [isUploading |-> FALSE, uploadProgress |-> prev]

\* use-file-upload.ts 184-185: the two state updates of the catch block
uploadCatch(prev) == [isUploading |-> FALSE, uploadProgress |-> 0]

\* use-file-upload.ts 183-187: onUpload rejected. The rejection is caught by the
\* try / catch around the await (none leaves handleFiles); onError gets the
\* failure message. The interval is not cleared here.
UploadReject(i) ==
  /\ sut = "hook"
  /\ UNCHANGED <<sut, mvars, cvars>>
  /\ i \in 1..Len(hBatches)
  /\ hBatches[i].stage = "upload"
  /\ isUploading' = uploadCatch(uploadProgress).isUploading
  /\ uploadProgress' = uploadCatch(uploadProgress).uploadProgress
  /\ uploadCalls' = [uploadCalls EXCEPT !.rejected = @ + 1]
  /\ hBatches' = IF hBatches[i].interval
                 THEN [hBatches EXCEPT ![i].stage = "failed"]
                 ELSE removeAt(hBatches, i)
  /\ hLast' = [hLast EXCEPT !.op = "uploadFailed",
                            !.errors = <<[kind |-> "uploadFailed", file |-> 0]>>]
  /\ UNCHANGED <<hOpts, hFiles, hNextId>>

\* removeFile's filter dropping the first record, whatever its id
withoutFirst(prev, id) == IF prev = <<>> THEN prev ELSE Tail(prev)

\* use-file-upload.ts 205: prev.filter((f) => f.id !== id)
withoutId(prev, id) ==
  LET keep(f) == f.id # id IN SelectSeq(prev, keep)

\* use-file-upload.ts 204-206 (hLast.recs: the records the call took out)
hookRemoveFile(id) ==
  /\ sut = "hook"
  /\ UNCHANGED <<sut, mvars, cvars>>
  /\ hFiles' = withoutId(hFiles, id)
  /\ LET gone(f) == f.id = id
     IN hLast' = [HookIdle EXCEPT !.op = "removeFile", !.recs = SelectSeq(hFiles, gone)]
  /\ hBatches' = noteRemoved(hBatches, idsOf(hFiles) \cap {id}, FALSE)
  /\ UNCHANGED <<hOpts, isUploading, uploadProgress, hNextId, uploadCalls>>

\* clearFiles without the reset of the progress value
clearFilesKeepsProgress ==
  /\ sut = "hook"
  /\ UNCHANGED <<sut, mvars, cvars>>
  /\ hFiles' = <<>>
  /\ isUploading' = FALSE
  /\ hLast' = [HookIdle EXCEPT !.op = "clearFiles"]
  /\ hBatches' = noteRemoved(hBatches, idsOf(hFiles), TRUE)
  /\ UNCHANGED <<hOpts, uploadProgress, hNextId, uploadCalls>>

\* use-file-upload.ts 216-220
clearFiles ==
  /\ sut = "hook"
  /\ UNCHANGED <<sut, mvars, cvars>>
  /\ hFiles' = <<>>
  /\ isUploading' = FALSE
  /\ uploadProgress' = 0
  /\ hLast' = [HookIdle EXCEPT !.op = "clearFiles"]
  /\ hBatches' = noteRemoved(hBatches, idsOf(hFiles), TRUE)
  /\ UNCHANGED <<hOpts, hNextId, uploadCalls>>

HookInit ==
  /\ hFiles = <<>>
  /\ isUploading = FALSE
  /\ uploadProgress = 0
  /\ hBatches = <<>>
  /\ hNextId = 1
  /\ hLast = HookIdle
  /\ uploadCalls = [calls |-> 0, resolved |-> 0, rejected |-> 0, uncaught |-> 0]

HookOff == HookInit /\ hOpts = [accept |-> AnyType, multiple |-> FALSE,
                                maxFiles |-> HookDefaultMaxFiles,
                                maxSize |-> HookDefaultMaxSizeMB * MBYTES,
                                minSize |-> 0, onUpload |-> FALSE]

(***************************************************************************)
(* FileUploader component                                                  *)
(***************************************************************************)
CompDefaultMaxFiles == 6
CompDefaultMaxSizeMB == 10

\* part_002 321: mergedConfig.maxFiles || 6
compMaxFiles(cfg) == IF cfg.maxFiles # 0 THEN cfg.maxFiles ELSE CompDefaultMaxFiles

\* part_002 322: (mergedConfig.maxFileSizeMB || 10) * 1024 * 1024
compMaxSize(cfg) ==
  (IF cfg.maxFileSizeMB # 0 THEN cfg.maxFileSizeMB ELSE CompDefaultMaxSizeMB) * MBYTES

\* part_002 327-374: the forEach of handleMultipleFiles. files is the files value
\* of the closure the function runs in, u the next fresh object URL / item id.
RECURSIVE multiLoop(_, _, _, _, _, _)
multiLoop(cfg, files, rest, validFiles, newErrors, u) ==
  IF rest = <<>> THEN [valid |-> validFiles, errors |-> newErrors]
  ELSE LET f == Head(rest)
           file == Files[f]
       IN IF file.size > compMaxSize(cfg)
          THEN multiLoop(cfg, files, Tail(rest), validFiles,
                         Append(newErrors, [kind |-> "exceeds", file |-> f,
                                            n |-> cfg.maxFileSizeMB]), u)
          ELSE IF Len(files) + Len(validFiles) >= compMaxFiles(cfg)
          THEN multiLoop(cfg, files, Tail(rest), validFiles,
                         Append(newErrors, [kind |-> "maxFiles", file |-> 0,
                                            n |-> compMaxFiles(cfg)]), u)
          ELSE IF ~compIsAccepted(cfg.acceptedFileTypes, f)
          THEN multiLoop(cfg, files, Tail(rest), validFiles,
                         Append(newErrors, [kind |-> "notAccepted", file |-> f,
                                            n |-> 0]), u)
          ELSE multiLoop(cfg, files, Tail(rest),
                         Append(validFiles, [id |-> u, file |-> f, preview |-> u]),
                         newErrors, u + 1)

\* part_002 320-378: what handleMultipleFiles computes before its two setState calls
handleMultipleFiles(cfg, files, newFiles, u) == multiLoop(cfg, files, newFiles, <<>>, <<>>, u)

\* The configurations explored. The single-file variants read neither
\* acceptedFileTypes nor maxFiles nor allowMultipleFiles in their handlers.
CompConfigs ==
  [defaultVariant : {"multi-file"},
   maxFileSizeMB : {0, 1},
   acceptedFileTypes : {AnyType, ImageAny},
   allowMultipleFiles : {FALSE},
   maxFiles : {0, 1, 2}]
  \cup
  [defaultVariant : {"multi-file"},
   maxFileSizeMB : {1},
   acceptedFileTypes : {AnyType},
   allowMultipleFiles : {TRUE},
   maxFiles : {2}]
  \cup
  [defaultVariant : {"preview layout", "button"},
   maxFileSizeMB : {0, 1},
   acceptedFileTypes : {ImageAny},
   allowMultipleFiles : {FALSE},
   maxFiles : {CompDefaultMaxFiles}]

CompFiles == {2, 3}
CompBatches == SeqsUpTo(CompFiles, MaxBatchLen)

CompIdle == [op |-> "init", input |-> <<>>, pre |-> <<>>, accepted |-> <<>>]

\* part_002 320-378 run in a closure whose files value is closureFiles:
\* setFiles((prev) => [...prev, ...validFiles]); setErrors(newErrors)
\* and whose mergedConfig is cfg:
runHandleMultipleFiles(op, cfg, closureFiles, newFiles) ==
  LET r == handleMultipleFiles(cfg, closureFiles, newFiles, nextUrl)
  IN /\ nextUrl + Len(r.valid) - 1 <= MaxUrls
     /\ cFiles' = cFiles \o r.valid
     /\ cErrors' = r.errors
     /\ nextUrl' = nextUrl + Len(r.valid)
     /\ cLast' = [op |-> op, input |-> newFiles, pre |-> cFiles, accepted |-> r.valid]
     /\ UNCHANGED <<cCfg, dropCfg, filepath, fileName, dropFiles, urlRevoked>>

\* part_002 266-278, run in a closure whose mergedConfig is cfg
handleFile(op, cfg, f) ==
  IF cfg.maxFileSizeMB # 0 /\ Files[f].size > cfg.maxFileSizeMB * MBYTES
  THEN \* alert(...); return
       /\ cLast' = [op |-> op, input |-> <<f>>, pre |-> <<>>, accepted |-> <<>>]
       /\ UNCHANGED <<cCfg, dropCfg, cFiles, cErrors, filepath, fileName, dropFiles,
                      urlRevoked, nextUrl>>
  ELSE /\ nextUrl <= MaxUrls
       /\ filepath' = nextUrl
       /\ fileName' = f
       /\ nextUrl' = nextUrl + 1
       /\ cLast' = [op |-> op, input |-> <<f>>,
                    pre |-> IF filepath = 0 THEN <<>>
                            ELSE <<[id |-> 0, file |-> fileName, preview |-> filepath]>>,
                    accepted |-> <<[id |-> 0, file |-> f, preview |-> nextUrl]>>]
       /\ UNCHANGED <<cCfg, dropCfg, cFiles, cErrors, dropFiles, urlRevoked>>

\* part_002 394-397, the onChange of the multi-file input (part_002 479-487, 859-870)
handleMultiFileChange(selectedFiles) ==
  /\ sut = "component"
  /\ UNCHANGED <<sut, mvars, hvars>>
  /\ cCfg.defaultVariant = "multi-file"
  /\ runHandleMultipleFiles("handleMultiFileChange", cCfg, cFiles, selectedFiles)

\* part_002 280-283, the onChange of the single-file input
handleFileChange(selectedFiles) ==
  /\ sut = "component"
  /\ UNCHANGED <<sut, mvars, hvars>>
  /\ cCfg.defaultVariant # "multi-file"
  /\ selectedFiles # <<>>
  /\ handleFile("handleFileChange", cCfg, selectedFiles[1])

\* part_002 291-305. The callback is memoized on defaultVariant alone, so the
\* handleMultipleFiles it calls is the one of the render that created the
\* callback: its files value is dropFiles, not the current cFiles, and the
\* mergedConfig both it and handleFile read is dropCfg, not the current one.
\* The button variant renders no drop zone (part_002 772-774, 878).
handleDrop(droppedFiles) ==
  /\ sut = "component"
  /\ UNCHANGED <<sut, mvars, hvars>>
  /\ cCfg.defaultVariant # "button"
  /\ IF dropCfg.defaultVariant = "multi-file"
     THEN runHandleMultipleFiles("handleDrop", dropCfg, dropFiles, droppedFiles)
     ELSE /\ droppedFiles # <<>>
          /\ handleFile("handleDrop", dropCfg, droppedFiles[1])

\* part_002 285-289; the Remove button is rendered while filepath is set
handleReset ==
  /\ sut = "component"
  /\ UNCHANGED <<sut, mvars, hvars>>
  /\ cCfg.defaultVariant # "multi-file"
  /\ filepath # 0
  /\ filepath' = 0
  /\ fileName' = 0
  /\ cLast' = [CompIdle EXCEPT !.op = "handleReset"]
  /\ UNCHANGED <<cCfg, dropCfg, cFiles, cErrors, dropFiles, urlRevoked, nextUrl>>

\* part_002 380-388
removeFile(fileId) ==
  /\ sut = "component"
  /\ UNCHANGED <<sut, mvars, hvars>>
  /\ cCfg.defaultVariant = "multi-file"
  /\ LET found == {i \in 1..Len(cFiles) : cFiles[i].id = fileId}
         keep(f) == f.id # fileId
     IN /\ urlRevoked' = IF found # {}
                         THEN LET fileToRemove == cFiles[CHOOSE i \in found : \A j \in found : i <= j]
                              IN [urlRevoked EXCEPT ![fileToRemove.preview] = @ + 1]
                         ELSE urlRevoked
        /\ cFiles' = SelectSeq(cFiles, keep)
  /\ cLast' = [CompIdle EXCEPT !.op = "removeFile"]
  /\ UNCHANGED <<cCfg, dropCfg, cErrors, filepath, fileName, dropFiles, nextUrl>>

\* The changes of the config prop explored, as pairs <<old, new>>: one that
\* keeps the variant and lowers the size limit, one that changes the variant.
ConfigChanges ==
  LET multi(mb) == [defaultVariant |-> "multi-file", maxFileSizeMB |-> mb,
                    acceptedFileTypes |-> AnyType, allowMultipleFiles |-> FALSE,
                    maxFiles |-> 2]
      single == [defaultVariant |-> "preview layout", maxFileSizeMB |-> 1,
                 acceptedFileTypes |-> ImageAny, allowMultipleFiles |-> FALSE,
                 maxFiles |-> CompDefaultMaxFiles]
  IN {<<multi(0), multi(1)>>, <<single, multi(0)>>}

\* part_002 208-213, 291-305: the parent renders FileUploader with another
\* config prop. mergedConfig is recomputed; the state kept by useState stays.
\* useCallback returns a new handleDrop, closing over this render's
\* mergedConfig and files, only if defaultVariant differs from the one of the
\* render that created the current callback.
Rerender(config) ==
  /\ sut = "component"
  /\ UNCHANGED <<sut, mvars, hvars>>
  /\ <<cCfg, config>> \in ConfigChanges
  /\ cCfg' = config
  /\ IF config.defaultVariant # dropCfg.defaultVariant
     THEN dropCfg' = config /\ dropFiles' = cFiles
     ELSE UNCHANGED <<dropCfg, dropFiles>>
  /\ cLast' = [CompIdle EXCEPT !.op = "rerender"]
  /\ UNCHANGED <<cFiles, cErrors, filepath, fileName, urlRevoked, nextUrl>>

CompInit ==
  /\ cFiles = <<>>
  /\ cErrors = <<>>
  /\ filepath = 0
  /\ fileName = 0
  /\ dropFiles = <<>>
  /\ urlRevoked = [u \in 1..MaxUrls |-> 0]
  /\ nextUrl = 1
  /\ cLast = CompIdle

\* part_002 107-121: defaultConfig
defaultConfig ==
  [defaultVariant |-> "preview layout", maxFileSizeMB |-> CompDefaultMaxSizeMB,
   acceptedFileTypes |-> ImageAny, allowMultipleFiles |-> FALSE,
   maxFiles |-> CompDefaultMaxFiles]

CompOff == CompInit /\ cCfg = defaultConfig /\ dropCfg = defaultConfig

(***************************************************************************)
(* Type-matching harness: one accept string and one candidate, to which    *)
(* the hook's validateFile and the component's type check are applied.     *)
(***************************************************************************)
MatchAccepts == AcceptStrings

\* use-file-upload.ts 39-48: the hook's options when only accept is given
hookDefaults(accept) ==
  [accept |-> accept, multiple |-> FALSE, maxFiles |-> HookDefaultMaxFiles,
   maxSize |-> HookDefaultMaxSizeMB * MBYTES, minSize |-> 0, onUpload |-> FALSE]

MatchHook ==
  /\ sut = "matcher"
  /\ UNCHANGED <<sut, hvars, cvars>>
  /\ mHook = "none"
  /\ mHook' = IF validateFile(hookDefaults(mAccept), mFile) = NoError
              THEN "accept" ELSE "reject"
  /\ UNCHANGED <<mAccept, mFile, mComp>>

MatchComp ==
  /\ sut = "matcher"
  /\ UNCHANGED <<sut, hvars, cvars>>
  /\ mComp = "none"
  /\ mComp' = IF handleMultipleFiles([defaultConfig EXCEPT !.acceptedFileTypes = mAccept],
                                     <<>>, <<mFile>>, 1).valid # <<>>
              THEN "accept" ELSE "reject"
  /\ UNCHANGED <<mAccept, mFile, mHook>>

MatchInit == mHook = "none" /\ mComp = "none"

MatchOff == MatchInit /\ mAccept = AnyType /\ mFile = 1

(***************************************************************************)
(* Specification: a behaviour exercises one of the three programs.         *)
(***************************************************************************)
Init ==
  \/ /\ sut = "matcher"
     /\ MatchInit /\ mAccept \in MatchAccepts /\ mFile \in AllFiles \ {3, 4}
     /\ HookOff /\ CompOff
  \/ /\ sut = "hook"
     /\ HookInit /\ hOpts \in HookOptions
     /\ MatchOff /\ CompOff
  \/ /\ sut = "component"
     /\ CompInit /\ cCfg \in CompConfigs /\ dropCfg = cCfg
     /\ MatchOff /\ HookOff

Next ==
  \/ MatchHook
  \/ MatchComp
  \/ \E input \in HookBatches : HandleFiles(input)
  \/ \E i \in 1..MaxIds, p \in 1..MaxBatchLen : ReaderLoad(i, p)
  \/ \E i \in 1..MaxIds, p \in 1..MaxBatchLen : ReaderFail(i, p)
  \/ \E i \in 1..MaxIds : IntervalTick(i)
  \/ \E i \in 1..MaxIds : UploadResolve(i)
  \/ \E i \in 1..MaxIds : GraceTimeout(i)
  \/ \E i \in 1..MaxIds : UploadReject(i)
  \/ \E id \in 1..MaxIds : hookRemoveFile(id)
  \/ clearFiles
  \/ \E b \in CompBatches : handleMultiFileChange(b)
  \/ \E b \in CompBatches : handleFileChange(b)
  \/ \E b \in CompBatches : handleDrop(b)
  \/ handleReset
  \/ \E id \in 1..MaxUrls : removeFile(id)
  \/ \E config \in CompConfigs : Rerender(config)

Spec == Init /\ [][Next]_vars

\* The scheduling the hook relies on: a FileReader that was started finishes,
\* with a load or with an error (use-file-upload.ts 104-112), an interval that is set fires (164-172), the
\* promise returned by onUpload settles (174), the grace timeout fires (179-182).
Fairness ==
  /\ WF_vars(\E i \in 1..MaxIds, p \in 1..MaxBatchLen : ReaderLoad(i, p) \/ ReaderFail(i, p))
  /\ WF_vars(\E i \in 1..MaxIds : IntervalTick(i))
  /\ WF_vars(\E i \in 1..MaxIds : UploadResolve(i) \/ UploadReject(i))
  /\ WF_vars(\E i \in 1..MaxIds : GraceTimeout(i))

LiveSpec == Init /\ [][Next]_vars /\ Fairness

(***************************************************************************)
(* Properties                                                              *)
(***************************************************************************)
Range(s) == {s[i] : i \in 1..Len(s)}

HookBatchOps == {"handleFiles", "commit"}
CompBatchOps == {"handleMultiFileChange", "handleDrop"}
InMultiFile == sut = "component" /\ cCfg.defaultVariant = "multi-file"

\* the mergedConfig the handler of the last component batch read: the picker
\* handlers are those of the current render, handleDrop is the memoized one
handlerConfig == IF cLast.op = "handleDrop" THEN dropCfg ELSE cCfg

\* C1: in the component's multi-file variant the files collection never holds
\* more than maxFiles records (the limit handleMultipleFiles applies), whatever
\* sequence of picker batches, drop batches and removals led to the state.
C1_ComponentWithinMaxFiles ==
  InMultiFile => Len(cFiles) <= compMaxFiles(cCfg)

\* C2: in the hook, files.length never exceeds maxFiles.
C2_HookWithinMaxFiles ==
  sut = "hook" => Len(hFiles) <= hOpts.maxFiles

\* C2 witness: a batch was committed on top of earlier records, together they
\* were more than maxFiles, and the collection is exactly full.
C2_CapReached ==
  /\ sut = "hook"
  /\ hLast.op = "commit"
  /\ hOpts.multiple
  /\ hLast.snap # <<>>
  /\ Len(hLast.snap) + Len(hLast.recs) > hOpts.maxFiles
  /\ Len(hFiles) = hOpts.maxFiles

\* C3: in the hook, every valid file of a committed batch that did not get into
\* the collection was rejected with a capacity error given to onError.
C3_NoSilentTruncation ==
  (sut = "hook" /\ hLast.op = "commit") =>
    \A i \in 1..Len(hLast.recs) :
      \/ hLast.recs[i] \in Range(hLast.final)
      \/ \E e \in Range(hLast.errors) :
           e.kind = "capacity" /\ e.file = hLast.recs[i].file

\* the candidates of a batch that pass the size and the type check of the component
compOtherwiseValid(input) ==
  \A i \in 1..Len(input) :
    /\ Files[input[i]].size <= compMaxSize(cCfg)
    /\ compIsAccepted(cCfg.acceptedFileTypes, input[i])

\* C4: a batch of n otherwise-valid files given to handleMultipleFiles while the
\* collection has k < n free slots: exactly the first k files are accepted, in
\* input order, and the other n - k each produce one "Maximum N files allowed".
C4_FirstKAcceptedRestRejected ==
  (/\ InMultiFile
   /\ cLast.op \in CompBatchOps
   /\ compOtherwiseValid(cLast.input)
   /\ compMaxFiles(cCfg) - Len(cLast.pre) >= 0
   /\ compMaxFiles(cCfg) - Len(cLast.pre) < Len(cLast.input)) =>
    LET k == compMaxFiles(cCfg) - Len(cLast.pre)
        n == Len(cLast.input)
    IN /\ [i \in 1..Len(cLast.accepted) |-> cLast.accepted[i].file] = SubSeq(cLast.input, 1, k)
       /\ cErrors = [i \in 1..(n - k) |-> [kind |-> "maxFiles", file |-> 0,
                                            n |-> compMaxFiles(cCfg)]]

\* C4 on the file-picker path alone (handleMultipleFiles run in the current closure)
C4_PickerFirstKAccepted ==
  cLast.op = "handleMultiFileChange" => C4_FirstKAcceptedRestRejected

\* what the last hook batch did with the candidates above / at a size limit
hookRejectsAbove(limit) ==
  \A i \in 1..Len(hLast.input) :
    LET f == hLast.input[i]
    IN /\ Files[f].size > limit =>
            /\ [kind |-> "tooLarge", file |-> f] \in Range(hLast.errors)
            /\ \A r \in Range(hLast.recs) : r.file # f
       /\ Files[f].size = limit =>
            [kind |-> "tooLarge", file |-> f] \notin Range(hLast.errors)

\* what the last component batch did with the candidates above / at a size limit
compRejectsAbove(limit) ==
  \A i \in 1..Len(cLast.input) :
    LET f == cLast.input[i]
    IN /\ Files[f].size > limit =>
            /\ \E e \in Range(cErrors) : e.kind = "exceeds" /\ e.file = f
            /\ \A r \in Range(cLast.accepted) : r.file # f
       /\ Files[f].size = limit =>
            ~ \E e \in Range(cErrors) : e.kind = "exceeds" /\ e.file = f

C6_AtMostOneWhenNotMultiple ==
  /\ (sut = "hook" /\ ~hOpts.multiple) => Len(hFiles) <= 1
  /\ (sut = "component" /\ ~cCfg.allowMultipleFiles) => Len(cFiles) <= 1

\* C7: single-file replacement. Hook with multiple = false: once a batch of one
\* valid file B is committed (maxFiles >= 1), B's record is the only one listed.
\* Component handleFile: once B is accepted, B's URL is the preview shown.
C7_SingleFileReplacement ==
  /\ (/\ sut = "hook"
      /\ hLast.op = "commit"
      /\ ~hOpts.multiple
      /\ Len(hLast.recs) = 1
      /\ hOpts.maxFiles >= 1) => hFiles = hLast.recs
  /\ (/\ sut = "component"
      /\ cLast.op \in {"handleFileChange", "handleDrop"}
      /\ cCfg.defaultVariant # "multi-file"
      /\ cLast.accepted # <<>>) =>
        /\ filepath = cLast.accepted[1].preview
        /\ fileName = cLast.accepted[1].file

\* C7 witness: with multiple = false a record of A was listed when B was
\* selected, and after B's commit only B's record is listed.
C7_ReplacedEarlierFile ==
  /\ sut = "hook"
  /\ hLast.op = "commit"
  /\ ~hOpts.multiple
  /\ Len(hLast.snap) = 1
  /\ Len(hLast.recs) = 1
  /\ hLast.snap[1].file # hLast.recs[1].file
  /\ hFiles = hLast.recs

\* the object URLs still referenced by the component's state
urlsInUse == {cFiles[i].preview : i \in 1..Len(cFiles)} \cup ({filepath} \ {0})

\* C8: every object URL the component created is revoked exactly once, when
\* its file is removed, replaced or reset: a URL in use is not revoked, a URL
\* no longer in use has been revoked once.
C8_UrlsRevokedExactlyOnce ==
  sut = "component" =>
    \A u \in 1..(nextUrl - 1) :
      IF u \in urlsInUse THEN urlRevoked[u] = 0 ELSE urlRevoked[u] = 1

\* the part of a string before its first "/"
beforeSlash(s) ==
  LET i == indexOf(s, <<"/">>) IN IF i = 0 THEN s ELSE SubSeq(s, 1, i - 1)

\* C9: a pattern ending in "/*" accepts a candidate if and only if the part of
\* its mimeType before "/" equals the part of the pattern before "/".
C9_SubtypeWildcardExact ==
  (/\ sut = "matcher"
   /\ Len(splitTrim(mAccept)) = 1
   /\ mAccept # AnyType
   /\ endsWith(mAccept, SlashStar)) =>
    LET same == beforeSlash(Files[mFile].type) = beforeSlash(mAccept)
    IN /\ mHook # "none" => (mHook = "accept" <=> same)
       /\ mComp # "none" => (mComp = "accept" <=> same)

\* the substring of a name after its last "."; <<>> when the name has no "."
RECURSIVE extension(_)
extension(name) ==
  LET i == indexOf(name, Dot)
  IN IF i = 0 THEN <<>>
     ELSE LET rest == SubSeq(name, i + 1, Len(name))
          IN IF indexOf(rest, Dot) = 0 THEN rest ELSE extension(rest)

hasExtension(name) == indexOf(name, Dot) # 0

\* C10: a pattern starting with "." accepts a candidate if and only if the
\* candidate's extension, compared case-insensitively, equals the pattern
\* without its dot.
C10_ExtensionPattern ==
  (/\ sut = "matcher"
   /\ Len(splitTrim(mAccept)) = 1
   /\ startsWith(mAccept, Dot)) =>
    LET same == /\ hasExtension(Files[mFile].name)
                /\ toLowerCase(extension(Files[mFile].name))
                     = toLowerCase(SubSeq(mAccept, 2, Len(mAccept)))
    IN /\ mHook # "none" => (mHook = "accept" <=> same)
       /\ mComp # "none" => (mComp = "accept" <=> same)

\* C11: when the list of accepted patterns contains "*/*" anywhere, alone or
\* beside other patterns, no candidate is rejected for its type, by the hook's
\* validateFile or by the component's handleMultipleFiles. (No candidate of
\* the harness is rejected for its size.)
C11_WildcardAnywhere ==
  (/\ sut = "matcher"
   /\ AnyType \in Range(splitTrim(mAccept))) =>
    /\ mHook # "reject"
    /\ mComp # "reject"

\* C12: in the single-file variants the file shown as the preview always
\* matches a pattern of acceptedFileTypes (by mimeType or by extension).
C12_SingleFilePreviewAccepted ==
  (/\ sut = "component"
   /\ cCfg.defaultVariant # "multi-file"
   /\ fileName # 0) =>
    compIsAccepted(cCfg.acceptedFileTypes, fileName)

\* The checks a candidate fails, by the documented names: the size limits as
\* the code reads them (0: not configured) and the type check of the program.
hookFails ==
  [f \in AllFiles |->
    [tooLarge |-> hOpts.maxSize # 0 /\ Files[f].size > hOpts.maxSize,
     tooSmall |-> hOpts.minSize # 0 /\ Files[f].size < hOpts.minSize,
     type     |-> ~hookIsValidType(hOpts.accept, f)]]

compFails ==
  [f \in AllFiles |->
    [tooLarge |-> Files[f].size > compMaxSize(handlerConfig),
     tooSmall |-> FALSE,
     type     |-> ~compIsAccepted(handlerConfig.acceptedFileTypes, f)]]

\* The messages the documented order of checks gives for a batch: one per
\* rejected candidate, of its first failing check in the order size above the
\* maximum, size below the minimum, capacity, type. free: the free slots left.
RECURSIVE firstFailing(_, _, _)
firstFailing(input, free, fails) ==
  IF input = <<>> THEN <<>>
  ELSE LET f == Head(input)
       IN IF fails[f].tooLarge
          THEN <<"tooLarge">> \o firstFailing(Tail(input), free, fails)
          ELSE IF fails[f].tooSmall
          THEN <<"tooSmall">> \o firstFailing(Tail(input), free, fails)
          ELSE IF free <= 0
          THEN <<"capacity">> \o firstFailing(Tail(input), free, fails)
          ELSE IF fails[f].type
          THEN <<"type">> \o firstFailing(Tail(input), free, fails)
          ELSE firstFailing(Tail(input), free - 1, fails)

\* the documented name of the check a message reports
checkOf(kind) ==
  CASE kind \in {"tooLarge", "exceeds"} -> "tooLarge"
    [] kind = "tooSmall" -> "tooSmall"
    [] kind \in {"capacity", "maxFiles"} -> "capacity"
    [] kind \in {"unsupportedType", "notAccepted"} -> "type"
    [] OTHER -> kind

checksOf(errors) == [i \in 1..Len(errors) |-> checkOf(errors[i].kind)]

\* the free slots a hook batch had when it was submitted
hookFree == hOpts.maxFiles - (IF hOpts.multiple THEN Len(hLast.snap) ELSE 0)

\* a hook batch whose outcome is complete: committed, or wholly rejected
hookBatchDone ==
  /\ sut = "hook"
  /\ \/ hLast.op = "commit"
     \/ hLast.op = "handleFiles" /\ hLast.recs = <<>>

\* C13: every rejected candidate of a batch produces exactly one message, the
\* one of its first failing check in the order size above the maximum, size
\* below the minimum, capacity, type; a batch has as many messages as rejected
\* candidates. Hook: the messages given to onError; component: the errors state.
C13_OneMessagePerRejected ==
  /\ hookBatchDone =>
       checksOf(hLast.errors) = firstFailing(hLast.input, hookFree, hookFails)
  /\ (InMultiFile /\ cLast.op \in CompBatchOps) =>
       checksOf(cErrors)
         = firstFailing(cLast.input, compMaxFiles(cCfg) - Len(cLast.pre), compFails)

\* position of record r in the sequence s (0 when absent)
positionIn(r, s) ==
  IF \E i \in 1..Len(s) : s[i] = r THEN CHOOSE i \in 1..Len(s) : s[i] = r ELSE 0

\* C14: when a batch commits, its records stand in the collection in the order
\* of their candidates in the input, whatever the order in which the previews
\* finished, and the records that were listed before the commit stay before
\* them, in their earlier order.
C14_InputOrderKept ==
  [][(sut = "hook" /\ hLast' # hLast /\ hLast'.op = "commit") =>
       LET batch == hLast'.recs
       IN /\ [i \in 1..Len(batch) |-> batch[i].file]
               = validateAll(hOpts, hLast'.input).valid
          /\ \A p, q \in 1..Len(hFiles') :
               p < q =>
                 LET r1 == hFiles'[p]
                     r2 == hFiles'[q]
                 IN /\ (r1 \in Range(batch) /\ r2 \in Range(batch)) =>
                         positionIn(r1, batch) < positionIn(r2, batch)
                    /\ r1 \in Range(batch) => r2 \in Range(batch)
                    /\ (r1 \in Range(hFiles) /\ r2 \in Range(hFiles)) =>
                         positionIn(r1, hFiles) < positionIn(r2, hFiles)
     ]_vars

\* C14 witness: the batch [a.png, b.pdf] was committed after the preview of
\* b.pdf had finished before the one of a.png, and the collection lists the
\* record of a.png before the record of b.pdf.
C14_OutOfOrderPreviews ==
  /\ sut = "hook"
  /\ hLast.op = "commit"
  /\ hLast.input = <<1, 2>>
  /\ hLast.done = <<2, 1>>
  /\ Len(hFiles) = 2
  /\ hFiles[1].file = 1
  /\ hFiles[2].file = 2

\* what removing id from a collection must give: the same collection when no
\* record has the id; otherwise the collection without the one record that
\* has it, the others in their order
removedExactly(before, id, after) ==
  LET hits == {i \in 1..Len(before) : before[i].id = id}
  IN IF hits = {} THEN after = before
     ELSE /\ Cardinality(hits) = 1
          /\ after = removeAt(before, CHOOSE i \in hits : TRUE)

\* C15: removeFile(id) leaves the collection unchanged when no record has the
\* id (never issued, already removed, or cleared), and otherwise removes
\* exactly the record with that id, the others keeping their order; in the
\* hook and in the component.
C15_RemoveFileExact ==
  [][/\ \A id \in 1..MaxIds :
          hookRemoveFile(id) => removedExactly(hFiles, id, hFiles')
     /\ \A id \in 1..MaxUrls :
          removeFile(id) => removedExactly(cFiles, id, cFiles')
    ]_vars

\* C15 witness: the hook's removeFile took one record out of a collection of
\* two, and the other record is still listed.
C15_RemovedOneOfTwo ==
  /\ sut = "hook"
  /\ hLast.op = "removeFile"
  /\ Len(hLast.recs) = 1
  /\ Len(hFiles) = 1
  /\ hFiles[1].id # hLast.recs[1].id

\* some onUpload promise of the hook is pending / some success is in its grace delay
uploadPending == \E i \in 1..Len(hBatches) : hBatches[i].stage = "upload"
inGrace == \E i \in 1..Len(hBatches) : hBatches[i].stage = "grace"

\* C16: for a single upload (onUpload called once so far): uploadProgress is
\* within [0, 90] while the onUpload promise is pending, is 100 only once the
\* promise has resolved, and after the grace delay uploadProgress is 0 and
\* isUploading is false.
C16_SingleUploadProgress ==
  (sut = "hook" /\ uploadCalls.calls = 1) =>
    /\ uploadPending => uploadProgress \in 0..90
    /\ uploadProgress = 100 => uploadCalls.resolved = 1
    /\ (uploadCalls.resolved = 1 /\ ~inGrace) =>
         (uploadProgress = 0 /\ isUploading = FALSE)

\* C16 witness: the single upload has resolved and shows 100 during its grace delay.
C16_ResolvedShows100 ==
  /\ sut = "hook"
  /\ uploadCalls.calls = 1
  /\ uploadCalls.resolved = 1
  /\ inGrace
  /\ uploadProgress = 100
  /\ isUploading = TRUE

\* C17: the step in which an onUpload promise rejects sets isUploading to false
\* and uploadProgress to 0, gives onError exactly one message, the failure
\* message, lets no rejection leave handleFiles, and leaves the files
\* collection as it was.
C17_UploadFailureHandled ==
  [][(sut = "hook" /\ uploadCalls'.rejected > uploadCalls.rejected) =>
       /\ isUploading' = FALSE
       /\ uploadProgress' = 0
       /\ hLast'.errors = <<[kind |-> "uploadFailed", file |-> 0]>>
       /\ uploadCalls'.uncaught = 0
       /\ hFiles' = hFiles
    ]_vars

\* C17 witness: an upload has just failed while its progress interval is still
\* set; the accepted files are still listed, progress is 0 and isUploading false.
C17_FailedAfterProgress ==
  /\ sut = "hook"
  /\ hLast.op = "uploadFailed"
  /\ uploadCalls.rejected = 1
  /\ \E i \in 1..Len(hBatches) : hBatches[i].stage = "failed"
  /\ hFiles # <<>>
  /\ uploadProgress = 0
  /\ isUploading = FALSE

\* C19: onUpload is never called as a side effect of selecting files. The hook
\* has no operation that requests an upload, so onUpload is never called.
C19_NoUploadOnSelection ==
  sut = "hook" => uploadCalls.calls = 0

\* C20: the clearFiles step ends with an empty files collection, isUploading
\* false and uploadProgress 0, whatever the state it starts from.
C20_ClearFilesResets ==
  [][clearFiles => (hFiles' = <<>> /\ isUploading' = FALSE /\ uploadProgress' = 0)]_vars

\* C20 witness: clearFiles was called while files were uploading: the onUpload
\* promise is still pending, and the collection is empty, isUploading false
\* and uploadProgress 0.
C20_ClearedWhileUploading ==
  /\ sut = "hook"
  /\ hLast.op = "clearFiles"
  /\ uploadPending
  /\ hFiles = <<>>
  /\ isUploading = FALSE
  /\ uploadProgress = 0

\* C18: every upload ends and the hook settles in Idle: with the timers firing
\* and every onUpload promise settling, the hook eventually reaches and then
\* stays in the state isUploading = false and uploadProgress = 0 (batches stop
\* being submitted once the record ids of the behaviour are used up).
C18_SettlesIdle ==
  <>[](sut = "hook" => (isUploading = FALSE /\ uploadProgress = 0))

\* s is a prefix of t
isPrefix(s, t) == Len(s) <= Len(t) /\ s = SubSeq(t, 1, Len(s))

\* the candidates of a batch that pass the size and type checks, in input order
hookPassing(input) ==
  LET passes(f) == ~hookFails[f].tooLarge /\ ~hookFails[f].tooSmall /\ ~hookFails[f].type
  IN SelectSeq(input, passes)

compPassing(input) ==
  LET passes(f) == ~compFails[f].tooLarge /\ ~compFails[f].type
  IN SelectSeq(input, passes)

\* C23: a rejected candidate never aborts its batch. Hook: the records made for
\* a batch are those of exactly the candidates that pass validation, wherever
\* the rejected ones stand, and every other candidate has its message.
\* Component: every candidate is either accepted or has its message, the
\* accepted ones are the passing candidates in order, and a passing candidate
\* is left out only for capacity.
C23_RejectionDoesNotAbort ==
  /\ (sut = "hook" /\ hLast.op \in HookBatchOps) =>
       /\ [i \in 1..Len(hLast.recs) |-> hLast.recs[i].file] = hookPassing(hLast.input)
       /\ Len(hLast.errors) + Len(hLast.recs) = Len(hLast.input)
  /\ (InMultiFile /\ cLast.op \in CompBatchOps) =>
       LET accepted == [i \in 1..Len(cLast.accepted) |-> cLast.accepted[i].file]
       IN /\ isPrefix(accepted, compPassing(cLast.input))
          /\ Len(accepted) + Len(cErrors) = Len(cLast.input)
          /\ Len(accepted) < Len(compPassing(cLast.input)) =>
               \E e \in Range(cErrors) : e.kind = "maxFiles"

\* C23 witness: a hook batch whose first candidate was rejected and whose second
\* candidate was accepted has committed, and the second candidate is listed.
C23_AcceptedAfterRejected ==
  /\ sut = "hook"
  /\ hLast.op = "commit"
  /\ Len(hLast.input) = 2
  /\ Len(hLast.errors) = 1
  /\ hLast.errors[1].file = hLast.input[1]
  /\ Len(hFiles) = 1
  /\ hFiles[1].file = hLast.input[2]
  /\ hLast.input[1] # hLast.input[2]

\* C25: the argument handed to onFilesSelected and to onUpload by a commit is
\* exactly the sequence of source files of the records of the files collection
\* that the commit wrote, in collection order: with multiple = true the files
\* of earlier batches are in it, a file cut off by the maxFiles cap is not.
C25_CallbackArgumentIsCollection ==
  (sut = "hook" /\ hLast.op = "commit") =>
    /\ Len(hLast.arg) = Len(hFiles)
    /\ \A i \in 1..Len(hFiles) : hLast.arg[i] = hFiles[i].file
    /\ Len(hLast.arg) <= hOpts.maxFiles

\* C25 witness: with multiple = true a batch of one file was committed on top
\* of one earlier record of another file; the argument lists the earlier
\* record's file and then the new file.
C25_ArgumentWithEarlierFile ==
  /\ sut = "hook"
  /\ hLast.op = "commit"
  /\ hOpts.multiple
  /\ Len(hLast.snap) = 1
  /\ Len(hLast.recs) = 1
  /\ hLast.snap[1].file # hLast.recs[1].file
  /\ hLast.arg = <<hLast.snap[1].file, hLast.recs[1].file>>

\* C27: with multiple = true, a commit whose records fit beside the listed ones
\* within maxFiles discards no listed record: after two overlapping batches
\* have committed, the records of both are listed.
C27_OverlappingBatchesBothKept ==
  [][(/\ sut = "hook"
      /\ hOpts.multiple
      /\ hLast' # hLast
      /\ hLast'.op = "commit"
      /\ Len(hFiles) + Len(hLast'.recs) <= hOpts.maxFiles) =>
       /\ \A r \in Range(hFiles) : r \in Range(hFiles')
       /\ \A r \in Range(hLast'.recs) : r \in Range(hFiles')
    ]_vars

\* C28: in the multi-file variant a batch submitted through handleDrop yields
\* the accepted files and the error messages that the same batch yields through
\* handleMultiFileChange from the same collection and configuration.
C28_DropEqualsPicker ==
  (InMultiFile /\ cLast.op = "handleDrop") =>
    LET picker == handleMultipleFiles(cCfg, cLast.pre, cLast.input, 1)
    IN /\ [i \in 1..Len(cLast.accepted) |-> cLast.accepted[i].file]
            = [i \in 1..Len(picker.valid) |-> picker.valid[i].file]
       /\ cErrors = picker.errors

\* C29: in every reachable state of the hook, isUploading = false implies
\* uploadProgress = 0.
C29_NoProgressWhenNotUploading ==
  sut = "hook" => (isUploading = FALSE => uploadProgress = 0)

\* C30: in every reachable state of the hook in which an onUpload promise is
\* pending, isUploading is true.
C30_UploadingWhilePending ==
  sut = "hook" => (uploadPending => isUploading = TRUE)

C26_RemovedNeverReappears ==
  (sut = "hook" /\ hLast.op = "commit") =>
    \A r \in Range(hFiles) : r.id \notin hLast.gone

\* C22: every handleFiles batch with a valid candidate eventually commits:
\* from some point on no call is left waiting for its previews.
C22_EveryBatchCommits ==
  <>[](sut = "hook" =>
         \A i \in 1..Len(hBatches) : hBatches[i].stage \notin {"preview", "stalled"})

\* C24: every batch is validated and capped against the constraints in force
\* when it is submitted: after a batch handled by the component, by the picker
\* or by drag-and-drop, no accepted file is larger than the maximum size of
\* the current config, and in the multi-file variant every accepted file
\* matches the current acceptedFileTypes and the batch added no more than the
\* current maxFiles.
C24_CurrentConstraintsApplied ==
  (sut = "component"
   /\ cLast.op \in {"handleDrop", "handleMultiFileChange", "handleFileChange"}) =>
    /\ \A i \in 1..Len(cLast.accepted) :
         LET f == cLast.accepted[i].file
         IN IF cCfg.defaultVariant = "multi-file"
            THEN /\ Files[f].size <= compMaxSize(cCfg)
                 /\ compIsAccepted(cCfg.acceptedFileTypes, f)
            ELSE cCfg.maxFileSizeMB # 0 => Files[f].size <= cCfg.maxFileSizeMB * MBYTES
    /\ cCfg.defaultVariant = "multi-file" => Len(cLast.accepted) <= compMaxFiles(cCfg)

====
